---------------------------- MODULE Spec2Model ----------------------------
(***************************************************************************)
(* Model of src/src/FileType.ts: the registry of file definitions, the     *)
(* resolution scan `get`, prefix expansion, the placement guesser and the  *)
(* convenience accessors.                                                  *)
(*                                                                         *)
(* Every JavaScript string is a sequence of one-character strings, so      *)
(* that extname, startsWith, endsWith, split and glob matching are         *)
(* computed on the characters. An optional `string | string[]` value is a  *)
(* record [kind, val] with kind "undefined", "string" or "array".          *)
(***************************************************************************)
EXTENDS Integers, Sequences, FiniteSets, TLC

\* ------------------------------------------------------------------------
\* Bound of the model.
\* ------------------------------------------------------------------------
\* Longest built-in sequence that setup installs.
MaxFileTypes == 2

\* ------------------------------------------------------------------------
\* JavaScript values.
\* ------------------------------------------------------------------------
Undefined == [kind |-> "undefined", val |-> <<>>]
Str(s) == [kind |-> "string", val |-> s]
Arr(a) == [kind |-> "array", val |-> a]

\* Outcome of a call: a returned value or a raised error.
Returned(v) == [status |-> "return", value |-> v]
Thrown(v) == [status |-> "throw", value |-> v]

\* !!x for x : undefined | string | string[]  (an empty string is falsy,
\* every array is truthy).
Truthy(x) ==
    \/ x.kind = "array"
    \/ x.kind = "string" /\ x.val # <<>>

\* Array.isArray(x) ? x : [x]
AsArray(x) == IF x.kind = "array" THEN x.val ELSE <<x.val>>

includes(list, x) == \E k \in 1..Len(list) : list[k] = x

startsWith(s, prefix) ==
    /\ Len(prefix) <= Len(s)
    /\ SubSeq(s, 1, Len(prefix)) = prefix

endsWith(s, suffix) ==
    /\ Len(suffix) <= Len(s)
    /\ SubSeq(s, Len(s) - Len(suffix) + 1, Len(s)) = suffix

\* Largest index in lo..hi whose character satisfies the test, 0 when none.
LastIndexOf(s, c, lo, hi) ==
    LET hits == {k \in lo..hi : s[k] = c}
    IN IF hits = {} THEN 0 ELSE CHOOSE k \in hits : \A m \in hits : m <= k

LastIndexNot(s, c, lo, hi) ==
    LET hits == {k \in lo..hi : s[k] # c}
    IN IF hits = {} THEN 0 ELSE CHOOSE k \in hits : \A m \in hits : m <= k

\* extname of path-browserify (posix): trailing slashes are ignored, the
\* extension starts at the last dot of the last segment; a segment with no
\* dot, a segment whose only dot is its first character, and the segment
\* ".." have the empty extension.
extname(path) ==
    LET end == LastIndexNot(path, "/", 1, Len(path))
        startPart == IF end = 0 THEN 1 ELSE LastIndexOf(path, "/", 1, end) + 1
        startDot == IF end = 0 THEN 0 ELSE LastIndexOf(path, ".", startPart, end)
    IN IF end = 0 \/ startDot = 0 THEN <<>>
       ELSE IF startDot = startPart THEN <<>>
       ELSE IF path[startPart] = "." /\ startDot = end /\ startDot = startPart + 1
            THEN <<>>
       ELSE SubSeq(path, startDot, end)

\* name.split('.').pop(): what follows the last dot, the whole name when it
\* has no dot.
splitPop(name) ==
    SubSeq(name, LastIndexOf(name, ".", 1, Len(name)) + 1, Len(name))


\* ------------------------------------------------------------------------
\* External collaborators.
\* ------------------------------------------------------------------------
\* isMatch of micromatch: picomatch compiles each pattern into a regular
\* expression and tests the string against it. The pattern language
\* modelled is the one of text, ".", "/" and "*"; a pattern with one of the
\* characters of Unsupported (the marks of extglobs, braces, brackets,
\* quotes, escapes, negation and "?") is not compiled: it matches its own
\* text only (the comparison picomatch makes before using the expression).
\* posix separators, default options.
\*
\* A character is a one-character string; LS and PS stand for the code
\* units U+2028 and U+2029.
LS == "U+2028"
PS == "U+2029"
\* What "." of a regular expression refuses.
LineTerminators == {"\n", "\r", LS, PS}

\* \w
WordChars ==
    {"a", "b", "c", "d", "e", "f", "g", "h", "i", "j", "k", "l", "m",
     "n", "o", "p", "q", "r", "s", "t", "u", "v", "w", "x", "y", "z",
     "A", "B", "C", "D", "E", "F", "G", "H", "I", "J", "K", "L", "M",
     "N", "O", "P", "Q", "R", "S", "T", "U", "V", "W", "X", "Y", "Z",
     "0", "1", "2", "3", "4", "5", "6", "7", "8", "9", "_"}
WordChar(c) == c \in WordChars

Unsupported == {"?", "+", "(", ")", "[", "]", "{", "}", "!", "@", "|", "\\", "\""}

\* The pieces of a compiled expression.
Piece(t) == [t |-> t, c |-> ""]
\* a character that stands for itself
Lit(c) == [t |-> "lit", c |-> c]
Lits(s) == [k \in 1..Len(s) |-> Lit(s[k])]
\* .  any character but a line terminator
ANY == Piece("ANY")
\* (?!\.)  the next character is not a dot
NO_DOT == Piece("NO_DOT")
\* (?!\.{0,1}(?:\/|$))  what follows is not "", "/", "." or "./"
NO_DOT_SLASH == Piece("NO_DOT_SLASH")
\* (?=.)  there is a next character, not a line terminator
ONE_CHAR == Piece("ONE_CHAR")
\* [^/]*?  a run of characters other than "/"
STAR == Piece("STAR")
\* (?:(?!(?:^|\/)\.).)*?  a run of characters in which no segment starts
\* with a dot
GLOBSTAR == Piece("GLOBSTAR")
\* \/?  the optional trailing slash
MAYBE_SLASH == Piece("MAYBE_SLASH")
\* (?:   |   )   )?   ^   $
OPEN == Piece("OPEN")
ALT == Piece("ALT")
CLOSE == Piece("CLOSE")
CLOSE_MAYBE == Piece("CLOSE_MAYBE")
START_ANCHOR == Piece("START_ANCHOR")
END_ANCHOR == Piece("END_ANCHOR")

NoSource == [ok |-> FALSE, re |-> <<>>]
Source(re) == [ok |-> TRUE, re |-> re]

\* REPLACEMENTS[input] || input
REPLACEMENTS(input) ==
    IF input = <<"*", "*", "*">> THEN <<"*">>
    ELSE IF input \in {<<"*", "*", "/", "*", "*">>,
                       <<"*", "*", "/", "*", "*", "/", "*", "*">>}
    THEN <<"*", "*">>
    ELSE input

\* utils.removePrefix: a leading "./" is dropped.
removePrefix(input) ==
    IF startsWith(input, <<".", "/">>) THEN SubSeq(input, 3, Len(input))
    ELSE input

\* (?:(?!\.)GLOBSTAR\/)?  the directories of a leading "**/" (fast paths)
MaybeDirs == <<OPEN, NO_DOT, GLOBSTAR, Lit("/"), CLOSE_MAYBE>>

\* `create` of parse.fastpaths: the table, and for anything else the
\* expression of what precedes the last ".ext" followed by the literal
\* ".ext" (/^(.*?)\.(\w+)$/).
RECURSIVE create(_)
create(str) ==
    IF str = <<"*">> THEN Source(<<NO_DOT, ONE_CHAR, STAR>>)
    ELSE IF str = <<".", "*">> THEN Source(<<Lit("."), ONE_CHAR, STAR>>)
    ELSE IF str = <<"*", ".", "*">>
        THEN Source(<<NO_DOT, STAR, Lit("."), ONE_CHAR, STAR>>)
    ELSE IF str = <<"*", "/", "*">>
        THEN Source(<<NO_DOT, STAR, Lit("/"), ONE_CHAR, NO_DOT, STAR>>)
    ELSE IF str = <<"*", "*">> THEN Source(<<NO_DOT, GLOBSTAR>>)
    ELSE IF str = <<"*", "*", "/", "*">>
        THEN Source(MaybeDirs \o <<NO_DOT, ONE_CHAR, STAR>>)
    ELSE IF str = <<"*", "*", "/", "*", ".", "*">>
        THEN Source(MaybeDirs \o <<NO_DOT, STAR, Lit("."), ONE_CHAR, STAR>>)
    ELSE IF str = <<"*", "*", "/", ".", "*">>
        THEN Source(MaybeDirs \o <<Lit("."), ONE_CHAR, STAR>>)
    ELSE LET dot == LastIndexOf(str, ".", 1, Len(str))
             isExt == /\ dot > 0
                      /\ dot < Len(str)
                      /\ \A k \in (dot + 1)..Len(str) : WordChar(str[k])
             source == create(SubSeq(str, 1, dot - 1))
         IN IF ~isExt THEN NoSource
            ELSE IF ~source.ok THEN NoSource
            ELSE Source(source.re \o Lits(SubSeq(str, dot, Len(str))))

\* parse.fastpaths: `create` on the input after REPLACEMENTS and
\* removePrefix; the optional trailing slash is appended to what it gives.
fastpaths(input) ==
    LET source == create(removePrefix(REPLACEMENTS(input)))
    IN IF source.ok THEN Source(source.re \o <<MAYBE_SLASH>>) ELSE NoSource

\* The tokens of parse: a type, the output (pieces) and the `star` mark.
Token(type, output) == [type |-> type, output |-> output, star |-> FALSE]
DropLast(seq, n) == SubSeq(seq, 1, Len(seq) - n)

\* push(tok) of parse: a globstar followed by anything but a slash falls
\* back to a star; the output of the token is appended; a text token is
\* merged into a text token before it, whose output takes the raw value.
push(state, tok, raw) ==
    LET n == Len(state.tokens)
        prev == state.tokens[n]
        fallsBack == prev.type = "globstar" /\ tok.type # "slash"
        fallen == IF fallsBack
                  THEN [state EXCEPT
                           !.output = DropLast(@, Len(prev.output)) \o <<STAR>>,
                           !.tokens[n] = [prev EXCEPT !.type = "star",
                                                      !.output = <<STAR>>]]
                  ELSE state
        appended == [fallen EXCEPT !.output = @ \o tok.output]
    IN IF appended.tokens[n].type = "text" /\ tok.type = "text"
       THEN [appended EXCEPT !.tokens[n].output = @ \o raw]
       ELSE [appended EXCEPT !.tokens = Append(@, tok)]

\* The loop of parse that drops the "/**" repeated after a "**".
RECURSIVE consecutive(_, _)
consecutive(input, index) ==
    IF /\ index + 3 <= Len(input)
       /\ SubSeq(input, index + 1, index + 3) = <<"/", "*", "*">>
       /\ ~(index + 4 <= Len(input) /\ input[index + 4] # "/")
    THEN consecutive(input, index + 3)
    ELSE index

\* A star after a star: the pair is a globstar when it opens a segment.
secondStar(input, state) ==
    LET n == Len(state.tokens)
        prev == state.tokens[n]
        prior == state.tokens[n - 1]
        beforeType == IF n >= 3 THEN state.tokens[n - 2].type ELSE "none"
        isStart == prior.type \in {"slash", "bos"}
        afterStar == beforeType \in {"star", "globstar"}
        index == consecutive(input, state.index)
        eos == index = Len(input)
        slashNext == index < Len(input) /\ input[index + 1] = "/"
        end == IF index + 2 <= Len(input) THEN <<ALT, END_ANCHOR>> ELSE <<>>
        cut == DropLast(state.output, Len(prior.output) + Len(prev.output))
        globstar(output) == [prev EXCEPT !.type = "globstar", !.output = output]
        slash == Token("slash", <<>>)
    IN IF ~isStart
       THEN [push(state, Token("star", <<>>), <<>>) EXCEPT !.index = state.index + 1]
       ELSE IF prior.type = "bos" /\ eos
       THEN [state EXCEPT !.tokens[n] = globstar(<<GLOBSTAR>>),
                          !.output = <<GLOBSTAR>>,
                          !.index = index + 1]
       ELSE IF prior.type = "slash" /\ beforeType # "bos" /\ ~afterStar /\ eos
       THEN [state EXCEPT
                !.tokens[n - 1].output = <<OPEN>> \o prior.output,
                !.tokens[n] = globstar(<<GLOBSTAR, ALT, END_ANCHOR, CLOSE>>),
                !.output = cut \o <<OPEN>> \o prior.output
                               \o <<GLOBSTAR, ALT, END_ANCHOR, CLOSE>>,
                !.index = index + 1]
       ELSE IF prior.type = "slash" /\ beforeType # "bos" /\ slashNext
       THEN LET output == <<GLOBSTAR, Lit("/"), ALT, Lit("/")>> \o end \o <<CLOSE>>
            IN [push([state EXCEPT
                         !.tokens[n - 1].output = <<OPEN>> \o prior.output,
                         !.tokens[n] = globstar(output),
                         !.output = cut \o <<OPEN>> \o prior.output \o output],
                     slash, <<>>)
                EXCEPT !.index = index + 2]
       ELSE IF prior.type = "bos" /\ slashNext
       THEN LET output == <<OPEN, START_ANCHOR, ALT, Lit("/"), ALT,
                            GLOBSTAR, Lit("/"), CLOSE>>
            IN [push([state EXCEPT !.tokens[n] = globstar(output),
                                   !.output = output],
                     slash, <<>>)
                EXCEPT !.index = index + 2]
       ELSE [state EXCEPT
                !.tokens[n] = globstar(<<GLOBSTAR>>),
                !.output = DropLast(state.output, Len(prev.output)) \o <<GLOBSTAR>>,
                !.index = index + 1]

\* A star that follows no star: at the start of the pattern, after a slash
\* or after a dot that opens a segment it may not stand for a dot segment,
\* and needs a character unless another star follows.
firstStar(input, state) ==
    LET n == Len(state.tokens)
        prev == state.tokens[n]
        index == state.index
        opens == index = state.start \/ prev.type \in {"slash", "dot"}
        guard == (IF prev.type = "dot" THEN <<NO_DOT_SLASH>> ELSE <<NO_DOT>>)
                 \o (IF index < Len(input) /\ input[index + 1] = "*"
                     THEN <<>> ELSE <<ONE_CHAR>>)
        guarded == IF opens
                   THEN [state EXCEPT !.output = @ \o guard,
                                      !.tokens[n].output = @ \o guard]
                   ELSE state
    IN [push(guarded, Token("star", <<STAR>>), <<>>) EXCEPT !.index = index + 1]

\* One turn of the loop of parse, on the character at state.index.
scanStep(input, state) ==
    LET n == Len(state.tokens)
        prev == state.tokens[n]
        index == state.index
        value == input[index]
        next(st) == [st EXCEPT !.index = index + 1]
    IN IF value = "/" THEN
            IF prev.type = "dot" /\ index = state.start + 1
            THEN [state EXCEPT !.start = index + 1,
                               !.output = <<>>,
                               !.tokens = DropLast(@, 1),
                               !.index = index + 1]
            ELSE next(push(state, Token("slash", <<Lit("/")>>), <<>>))
       ELSE IF value = "." THEN
            IF prev.type \notin {"bos", "slash"}
            THEN next(push(state, Token("text", <<Lit(".")>>), <<ANY>>))
            ELSE next(push(state, Token("dot", <<Lit(".")>>), <<>>))
       ELSE IF value # "*"
            THEN next(push(state, Token("text", <<Lit(value)>>), <<Lit(value)>>))
       ELSE IF prev.type = "globstar" \/ prev.star
            THEN [state EXCEPT
                     !.tokens[n] = [type |-> "star", output |-> <<STAR>>, star |-> TRUE],
                     !.backtrack = TRUE,
                     !.index = index + 1]
       ELSE IF prev.type = "star" THEN secondStar(input, state)
       ELSE firstStar(input, state)

RECURSIVE scan(_, _)
scan(input, state) ==
    IF state.index > Len(input) THEN state
    ELSE scan(input, scanStep(input, state))

RECURSIVE outputs(_, _)
outputs(tokens, k) ==
    IF k > Len(tokens) THEN <<>> ELSE tokens[k].output \o outputs(tokens, k + 1)

\* The end of parse, after the loop: the optional slash is appended when
\* the last token is a star, and the output is rebuilt from the tokens when
\* three stars in a row were met.
parseEnd(state) ==
    LET lastToken == state.tokens[Len(state.tokens)]
        ended == IF lastToken.type = "star"
                 THEN push(state, Token("maybe_slash", <<MAYBE_SLASH>>), <<>>)
                 ELSE state
    IN IF ended.backtrack THEN Source(outputs(ended.tokens, 1))
       ELSE Source(ended.output)

\* parse of picomatch (named parse_glob here, `parse` being the JSON
\* parser). A pattern with no "/" that does not start with "*" is
\* rewritten in place: every run of stars becomes one STAR, the other
\* characters stand for themselves. Otherwise the token scan and its end.
parse_glob(pattern) ==
    LET input == removePrefix(REPLACEMENTS(pattern))
        skip == Piece("skip")
        rewritten ==
            SelectSeq([k \in 1..Len(input) |->
                          IF input[k] # "*" THEN Lit(input[k])
                          ELSE IF k > 1 /\ input[k - 1] = "*" THEN skip
                          ELSE STAR],
                      LAMBDA piece : piece # skip)
        inPlace == /\ input = <<>> \/ input[1] # "*"
                   /\ \A k \in 1..Len(input) : input[k] # "/"
    IN IF inPlace THEN Source(rewritten)
       ELSE parseEnd(scan(input, [index |-> 1, start |-> 1,
                                  tokens |-> <<Token("bos", <<>>)>>,
                                  output |-> <<>>, backtrack |-> FALSE]))

\* picomatch.makeRe: a TypeError on the empty pattern; parse.fastpaths for
\* a pattern that starts with "." or "*", parse when that gives nothing. A
\* pattern with an unsupported character has no source here.
makeRe(input) ==
    IF input = <<>> THEN Thrown("TypeError")
    ELSE IF \E k \in 1..Len(input) : input[k] \in Unsupported
    THEN Returned(NoSource)
    ELSE IF input[1] \in {".", "*"} /\ fastpaths(input).ok
    THEN Returned(fastpaths(input))
    ELSE Returned(parse_glob(input))

\* The character at index m may be consumed by GLOBSTAR: it is not a line
\* terminator, does not start the string with a dot and is not a "/"
\* followed by a dot.
GlobstarChar(str, m) ==
    /\ str[m] \notin LineTerminators
    /\ ~(m = 1 /\ str[m] = ".")
    /\ ~(str[m] = "/" /\ m + 1 <= Len(str) /\ str[m + 1] = ".")

\* The alternatives of the group that opens the expression, each followed
\* by what comes after the group.
Alternatives(re) ==
    LET close == CHOOSE k \in 1..Len(re) :
                    /\ re[k] \in {CLOSE, CLOSE_MAYBE}
                    /\ \A m \in 1..(k - 1) : re[m] \notin {CLOSE, CLOSE_MAYBE}
        bars == {1, close} \cup {k \in 1..close : re[k] = ALT}
        after == SubSeq(re, close + 1, Len(re))
    IN {SubSeq(re, lo + 1, hi - 1) \o after :
            <<lo, hi>> \in {b \in bars \X bars :
                              /\ b[1] < b[2]
                              /\ \A k \in bars : ~(b[1] < k /\ k < b[2])}}
       \cup (IF re[close] = CLOSE_MAYBE THEN {after} ELSE {})

\* regex.exec of /^(?:re)$/: the pieces match the string from index j to
\* its end.
RECURSIVE exec(_, _, _)
exec(re, str, j) ==
    LET rest(k) == exec(Tail(re), str, k)
        at(k, c) == k <= Len(str) /\ str[k] = c
        ended(k) == k > Len(str) \/ str[k] = "/"
    IN IF re = <<>> THEN j > Len(str)
       ELSE CASE re[1].t = "lit" -> at(j, re[1].c) /\ rest(j + 1)
              [] re[1].t = "ANY" ->
                    j <= Len(str) /\ str[j] \notin LineTerminators /\ rest(j + 1)
              [] re[1].t = "NO_DOT" -> ~at(j, ".") /\ rest(j)
              [] re[1].t = "NO_DOT_SLASH" ->
                    ~(ended(j) \/ (at(j, ".") /\ ended(j + 1))) /\ rest(j)
              [] re[1].t = "ONE_CHAR" ->
                    j <= Len(str) /\ str[j] \notin LineTerminators /\ rest(j)
              [] re[1].t = "STAR" ->
                    \E k \in j..(Len(str) + 1) :
                        /\ \A m \in j..(k - 1) : str[m] # "/"
                        /\ rest(k)
              [] re[1].t = "GLOBSTAR" ->
                    \E k \in j..(Len(str) + 1) :
                        /\ \A m \in j..(k - 1) : GlobstarChar(str, m)
                        /\ rest(k)
              [] re[1].t = "MAYBE_SLASH" -> rest(j) \/ (at(j, "/") /\ rest(j + 1))
              [] re[1].t = "START_ANCHOR" -> j = 1 /\ rest(j)
              [] re[1].t = "END_ANCHOR" -> j > Len(str) /\ rest(j)
              [] re[1].t = "OPEN" ->
                    \E alternative \in Alternatives(re) : exec(alternative, str, j)

\* picomatch.test(input, regex, options, {glob}): the empty string matches
\* nothing, a string equal to the pattern matches, otherwise the expression
\* decides. `regex` is the outcome of makeRe; its TypeError is passed on.
test(input, regex, glob) ==
    IF regex.status = "throw" THEN regex
    ELSE Returned(/\ input # <<>>
                  /\ \/ input = glob
                     \/ regex.value.ok /\ exec(regex.value.re, input, 1))

\* picomatch(glob)(input): the pattern is compiled (a TypeError on the
\* empty pattern), then tested.
picomatch(input, glob) == test(input, makeRe(glob), glob)

\* isMatch(str, patterns): every pattern is compiled first, so that an
\* empty one raises whatever the others match; then some pattern matches.
isMatch(str, patterns) ==
    LET tests == [k \in 1..Len(patterns) |-> picomatch(str, patterns[k])]
    IN IF \E k \in 1..Len(patterns) : tests[k].status = "throw"
       THEN Thrown("TypeError")
       ELSE Returned(\E k \in 1..Len(patterns) : tests[k].value)

\* The lenient JSON parser: it returns a value for a well-formed text and
\* raises on a malformed one. The value itself is never read by guessFolder.
WellFormedTexts == {<<"{", "}">>, <<"{", "a", ":", "1", "}">>}
MalformedTexts == {<<"{">>, <<>>}
Texts == WellFormedTexts \cup MalformedTexts
parse(text) == IF text \in WellFormedTexts THEN "value" ELSE "SyntaxError"

\* Pack categories and the project context. A pack root is the category's
\* folder below the project's base path.
BP == <<"B", "P">>
RP == <<"R", "P">>
TheProjectConfig ==
    [kind |-> "object",
     val |-> [basePath |-> <<>>,
              packs |-> <<[id |-> BP, root |-> <<"B", "P", "/">>],
                          [id |-> RP, root |-> <<"R", "P", "/">>]>>]]
NoProjectConfig == [kind |-> "undefined", val |-> <<>>]

\* ProjectConfig.resolvePackPath(packType, template): the template below the
\* base path when no category is given, below the category's root otherwise.
resolvePackPath(config, packType, template) ==
    IF packType.kind = "undefined" THEN config.basePath \o template
    ELSE LET k == CHOOSE k \in 1..Len(config.packs) :
                      config.packs[k].id = packType.val
         IN config.basePath \o config.packs[k].root \o template

\* ------------------------------------------------------------------------
\* File definitions (IFileType). The fields of `detect` are flattened into
\* the record; a missing `detect` is a record whose detect fields are all
\* undefined.
\* ------------------------------------------------------------------------
JSON == <<"j", "s", "o", "n">>
TEXT == <<"t", "e", "x", "t">>
PLAINTEXT == <<"p", "l", "a", "i", "n", "t", "e", "x", "t">>
DotJson == <<".", "j", "s", "o", "n">>
DotMc == <<".", "m", "c">>
UNKNOWN == <<"u", "n", "k", "n", "o", "w", "n">>

FileTypeA ==
    [id |-> <<"a">>, type |-> Str(JSON), packType |-> Undefined,
     scope |-> Str(<<"B", "P", "/", "e">>), matcher |-> Undefined,
     fileExtensions |-> Arr(<<DotJson>>), fileContent |-> Arr(<<<<"p">>>>),
     language |-> Undefined]
FileTypeB ==
    [id |-> <<"b">>, type |-> Undefined, packType |-> Str(BP),
     scope |-> Undefined, matcher |-> Arr(<<<<"*", "*", "/", "*", ".", "m", "c">>>>),
     fileExtensions |-> Undefined, fileContent |-> Undefined,
     language |-> Str(PLAINTEXT)]
\* A definition with neither scope nor matcher.
FileTypeC ==
    [id |-> <<"c">>, type |-> Undefined, packType |-> Undefined,
     scope |-> Undefined, matcher |-> Undefined,
     fileExtensions |-> Arr(<<DotMc>>), fileContent |-> Undefined,
     language |-> Undefined]
\* Scope and matcher together, two pack categories, two scope templates.
FileTypeD ==
    [id |-> <<"d">>, type |-> Undefined, packType |-> Arr(<<BP, RP>>),
     scope |-> Arr(<<<<"e", "/">>, <<"t">>>>), matcher |-> Str(<<"*", "*", "/", "*", ".", "j", "s", "o", "n">>),
     fileExtensions |-> Undefined, fileContent |-> Arr(<<<<"q">>>>),
     language |-> Str(JSON)]
FileTypeE ==
    [id |-> <<"e">>, type |-> Str(TEXT), packType |-> Undefined,
     scope |-> Str(RP), matcher |-> Undefined,
     fileExtensions |-> Arr(<<DotMc, DotJson>>), fileContent |-> Arr(<<<<"r">>>>),
     language |-> Undefined]
\* A matcher whose only pattern is the empty string, which isMatch refuses
\* once the project context has expanded it (below the empty base path).
FileTypeG ==
    [id |-> <<"g">>, type |-> Undefined, packType |-> Undefined,
     scope |-> Undefined, matcher |-> Arr(<<<<>>>>),
     fileExtensions |-> Undefined, fileContent |-> Undefined,
     language |-> Undefined]

\* Definitions contributed by plugins.
PluginFileTypeP ==
    [id |-> <<"p">>, type |-> Str(JSON), packType |-> Undefined,
     scope |-> Str(BP), matcher |-> Undefined,
     fileExtensions |-> Undefined, fileContent |-> Arr(<<<<"s">>>>),
     language |-> Str(PLAINTEXT)]
PluginFileTypeQ ==
    [id |-> <<"a">>, type |-> Undefined, packType |-> Undefined,
     scope |-> Undefined, matcher |-> Str(<<"*", ".", "j", "s", "o", "n">>),
     fileExtensions |-> Undefined, fileContent |-> Undefined,
     language |-> Undefined]

\* fileTypes and pluginFileTypes hold references to definition objects;
\* Deref gives the object. Every scope of the pool has an entry: the data
\* model gives a scope one or many templates.
FileTypePool == {"A", "B", "C", "D", "E", "G"}
PluginPool == {"p", "q"}
Deref(ref) ==
    CASE ref = "A" -> FileTypeA
      [] ref = "B" -> FileTypeB
      [] ref = "C" -> FileTypeC
      [] ref = "D" -> FileTypeD
      [] ref = "E" -> FileTypeE
      [] ref = "G" -> FileTypeG
      [] ref = "p" -> PluginFileTypeP
      [] ref = "q" -> PluginFileTypeQ

\* The sequences setup may install: distinct definitions of the pool, in any
\* order (a second copy of a definition is never the one a scan stops at).
BuiltInSequences ==
    UNION {{seq \in [1..n -> FileTypePool] :
                \A j, k \in 1..n : seq[j] = seq[k] => j = k} : n \in 0..MaxFileTypes}

\* File paths handed to get and getId.
FilePaths ==
    {<<"B", "P", "/", "e", "/", "x", ".", "j", "s", "o", "n">>,
     <<"B", "P", "/", "e", "/", "x", ".", "m", "c">>,
     <<"B", "P", "/", "e", "/", "x">>,
     <<"R", "P", "/", "t", ".", "j", "s", "o", "n">>,
     <<"x", ".", "j", "s", "o", "n">>,
     <<"x", ".", "m", "c">>,
     <<>>}
\* File paths handed to isJsonFile: one per kind of answer of get (a JSON
\* definition, a plain-text one or an error, one found by a second category).
JsonFilePaths ==
    {<<"B", "P", "/", "e", "/", "x", ".", "j", "s", "o", "n">>,
     <<"B", "P", "/", "e", "/", "x", ".", "m", "c">>,
     <<"R", "P", "/", "t", ".", "j", "s", "o", "n">>}
\* Identifiers handed to get as searchFileType ("z" is carried by no
\* definition), and the pairs (filePath, searchFileType) get is called with.
SearchIds == {<<"a">>, <<"c">>, <<"z">>}
GetInputs ==
    {<<filePath, Undefined>> : filePath \in {Undefined} \cup {Str(p) : p \in FilePaths}}
    \cup
    {<<filePath, Str(id)>> :
        filePath \in {Undefined,
                      Str(<<"B", "P", "/", "e", "/", "x", ".", "j", "s", "o", "n">>),
                      Str(<<"x", ".", "m", "c">>)},
        id \in SearchIds}
\* Names of the file handles handed to guessFolder.
FileNames ==
    {<<"x", ".", "j", "s", "o", "n">>, <<"x", ".", "m", "c">>, <<"x">>}

\* ------------------------------------------------------------------------
\* The methods of FileType, as functions of the object `self`
\* ([fileTypes, pluginFileTypes, projectConfig]) and their arguments.
\* ------------------------------------------------------------------------
\* prefixMatchers falling back on a default project context instead of
\* returning no prefix.
prefixMatchersDefaultContext(self, packTypes, matchers) ==
    IF Len(packTypes) = 0 THEN
        [k \in 1..Len(matchers) |->
            resolvePackPath(TheProjectConfig.val, Undefined, matchers[k])]
    ELSE
        [k \in 1..(Len(packTypes) * Len(matchers)) |->
            resolvePackPath(TheProjectConfig.val,
                            Str(packTypes[((k - 1) \div Len(matchers)) + 1]),
                            matchers[((k - 1) % Len(matchers)) + 1])]

\* prefixMatchers(packTypes, matchers): no project context gives no prefix;
\* no category gives one prefix per template; otherwise one prefix per
\* (category, template) pair, categories outermost.
prefixMatchers(self, packTypes, matchers) ==
    IF self.projectConfig.kind = "undefined" THEN <<>>
    ELSE IF Len(packTypes) = 0 THEN
        [k \in 1..Len(matchers) |->
            resolvePackPath(self.projectConfig.val, Undefined, matchers[k])]
    ELSE
        [k \in 1..(Len(packTypes) * Len(matchers)) |->
            resolvePackPath(self.projectConfig.val,
                            Str(packTypes[((k - 1) \div Len(matchers)) + 1]),
                            matchers[((k - 1) % Len(matchers)) + 1])]

\* The extension test of get: the definition is passed over when it
\* declares fileExtensions, the extension is a non-empty string and the list
\* does not hold it.
skipsExtension(fileType, extension) ==
    /\ fileType.fileExtensions.kind # "undefined"
    /\ extension # <<>>
    /\ ~includes(fileType.fileExtensions.val, extension)

\* detectStep passing over a definition with neither scope nor matcher.
detectStepSkipsInvalid(self, fileType, filePath) ==
    LET packTypes == IF fileType.packType.kind = "undefined" THEN <<>>
                     ELSE AsArray(fileType.packType)
    IN IF Truthy(fileType.scope) THEN
            LET prefixes == prefixMatchers(self, packTypes, AsArray(fileType.scope))
            IN IF \E k \in 1..Len(prefixes) : startsWith(filePath, prefixes[k])
               THEN "return" ELSE "continue"
       ELSE IF Truthy(fileType.matcher) THEN
            LET matched == isMatch(filePath, prefixMatchers(self, packTypes,
                                                            AsArray(fileType.matcher)))
            IN IF matched.status = "throw" THEN "TypeError"
               ELSE IF matched.value THEN "return" ELSE "continue"
       ELSE "continue"

\* The scope / matcher / neither branches of get for one definition:
\* "return", "continue", "throw" (the error of get) or "TypeError" (the one
\* isMatch raises on an empty pattern).
detectStep(self, fileType, filePath) ==
    LET packTypes == IF fileType.packType.kind = "undefined" THEN <<>>
                     ELSE AsArray(fileType.packType)
        hasScope == Truthy(fileType.scope)
        scope == AsArray(fileType.scope)
        hasMatcher == Truthy(fileType.matcher)
        matcher == AsArray(fileType.matcher)
    IN IF hasScope THEN
            LET prefixes == prefixMatchers(self, packTypes, scope)
            IN IF \E k \in 1..Len(prefixes) : startsWith(filePath, prefixes[k])
               THEN "return" ELSE "continue"
       ELSE IF hasMatcher THEN
            LET matched == isMatch(filePath, prefixMatchers(self, packTypes, matcher))
            IN IF matched.status = "throw" THEN "TypeError"
               ELSE IF matched.value THEN "return" ELSE "continue"
       ELSE "throw"

\* The body of the loop of get for the definition at index i: "return",
\* "continue", "throw" or "TypeError".
getStep(self, filePath, searchFileType, i) ==
    LET fileType == Deref(self.fileTypes[i])
        extension == IF Truthy(filePath) THEN extname(filePath.val) ELSE <<>>
    IN IF searchFileType.kind # "undefined" /\ searchFileType.val = fileType.id
       THEN "return"
       ELSE IF ~Truthy(filePath) THEN "continue"
       ELSE IF skipsExtension(fileType, extension) THEN "continue"
       ELSE detectStep(self, fileType, filePath.val)

\* get(filePath, searchFileType): the scan of the built-in sequence. The
\* value of a return is the index of the definition in fileTypes (the object
\* returned), 0 for undefined; the value of a throw is the index of the
\* offending definition; a TypeError of isMatch is an outcome of its own.
TypeErrorAt(i) == [status |-> "TypeError", value |-> i]
RECURSIVE getFrom(_, _, _, _)
getFrom(self, filePath, searchFileType, i) ==
    IF i > Len(self.fileTypes) THEN Returned(0)
    ELSE LET step == getStep(self, filePath, searchFileType, i)
         IN IF step = "return" THEN Returned(i)
            ELSE IF step = "throw" THEN Thrown(i)
            ELSE IF step = "TypeError" THEN TypeErrorAt(i)
            ELSE getFrom(self, filePath, searchFileType, i + 1)

\* get keeping the last definition that returns instead of the first.
RECURSIVE getFromEnd(_, _, _, _)
getFromEnd(self, filePath, searchFileType, i) ==
    IF i < 1 THEN Returned(0)
    ELSE LET step == getStep(self, filePath, searchFileType, i)
         IN IF step = "return" THEN Returned(i)
            ELSE IF step = "throw" THEN Thrown(i)
            ELSE IF step = "TypeError" THEN TypeErrorAt(i)
            ELSE getFromEnd(self, filePath, searchFileType, i - 1)
getLastWins(self, filePath, searchFileType) ==
    getFromEnd(self, filePath, searchFileType, Len(self.fileTypes))

\* get scanning the plugin collection ahead of the built-in sequence.
getWithPlugins(self, filePath, searchFileType) ==
    LET r == getFrom([self EXCEPT !.fileTypes = self.pluginFileTypes \o self.fileTypes],
                     filePath, searchFileType, 1)
        n == Len(self.pluginFileTypes)
    IN IF r.value = 0 THEN r
       ELSE IF r.value <= n THEN [r EXCEPT !.value = 0]
       ELSE [r EXCEPT !.value = r.value - n]

get(self, filePath, searchFileType) == getFrom(self, filePath, searchFileType, 1)

getIds(self) == [k \in 1..Len(self.fileTypes) |-> Deref(self.fileTypes[k]).id]

\* getId without the 'unknown' sentinel.
getIdNoSentinel(self, filePath) ==
    LET r == get(self, Str(filePath), Undefined)
    IN IF r.status # "return" THEN r
       ELSE IF r.value = 0 THEN Returned(<<>>)
       ELSE Returned(Deref(self.fileTypes[r.value]).id)

\* `?.id ?? 'unknown'` on the outcome r of get; an error of get is passed on.
idOrUnknown(self, r) ==
    IF r.status # "return" THEN r
    ELSE IF r.value = 0 THEN Returned(UNKNOWN)
    ELSE Returned(Deref(self.fileTypes[r.value]).id)

\* getId(filePath): this.get(filePath)?.id ?? 'unknown'
getId(self, filePath) == idOrUnknown(self, get(self, Str(filePath), Undefined))

\* `?.meta?.language` on the definition get returned (index 0: undefined).
languageOf(self, index) ==
    IF index = 0 THEN Undefined ELSE Deref(self.fileTypes[index]).language

\* language ? language === 'json' : filePath.endsWith('.json')
languageIsJson(language, filePath) ==
    IF Truthy(language) THEN language.val = JSON ELSE endsWith(filePath, DotJson)

\* The body of isJsonFile on the outcome r of get; an error of get is passed on.
isJsonFileOn(self, filePath, r) ==
    IF r.status # "return" THEN r
    ELSE Returned(languageIsJson(languageOf(self, r.value), filePath))

\* isJsonFile(filePath)
isJsonFile(self, filePath) ==
    isJsonFileOn(self, filePath, get(self, Str(filePath), Undefined))

\* getPluginFileTypes(): the members in insertion order.
getPluginFileTypes(self) == self.pluginFileTypes

\* No guess (null).
Null == [kind |-> "null", val |-> <<>>]

\* getStartPath without the added separator.
getStartPathRaw(scope) ==
    IF scope.kind = "array" /\ scope.val = <<>> THEN Thrown("TypeError")
    ELSE Returned(Str(IF scope.kind = "array" THEN scope.val[1] ELSE scope.val))

\* getStartPath of guessFolder: the scope itself or its first entry, a "/"
\* added when it does not end with one. The first entry of an empty array is
\* undefined, and `startPath.endsWith` raises a TypeError on it.
getStartPath(scope) ==
    IF scope.kind = "array" /\ scope.val = <<>> THEN Thrown("TypeError")
    ELSE LET startPath == IF scope.kind = "array" THEN scope.val[1] ELSE scope.val
         IN Returned(Str(IF ~endsWith(startPath, <<"/">>)
                         THEN startPath \o <<"/">> ELSE startPath))

\* Phase 1 of guessFolder: the outcome of getStartPath on the first
\* definition with a scope whose fileExtensions lists
\* '.' + name.split('.').pop(); Null is returned when there is none.
RECURSIVE guessByExtensionFrom(_, _, _)
guessByExtensionFrom(self, extension, i) ==
    IF i > Len(self.fileTypes) THEN Returned(Null)
    ELSE LET detect == Deref(self.fileTypes[i])
         IN IF ~Truthy(detect.scope)
            THEN guessByExtensionFrom(self, extension, i + 1)
            ELSE IF /\ detect.fileExtensions.kind # "undefined"
                    /\ includes(detect.fileExtensions.val, extension)
            THEN getStartPath(detect.scope)
            ELSE guessByExtensionFrom(self, extension, i + 1)

guessByExtension(self, name) ==
    guessByExtensionFrom(self, <<".">> \o splitPop(name), 1)

\* Phase 2 of guessFolder, after the text was parsed: the outcome of
\* getStartPath on the first definition of type json or of no type that has
\* a scope and a fileContent; Null is returned when there is none.
RECURSIVE guessByContentFrom(_, _)
guessByContentFrom(self, i) ==
    IF i > Len(self.fileTypes) THEN Returned(Null)
    ELSE LET fileType == Deref(self.fileTypes[i])
         IN IF fileType.type.kind = "string" /\ fileType.type.val # JSON
            THEN guessByContentFrom(self, i + 1)
            ELSE IF ~Truthy(fileType.scope) \/ fileType.fileContent.kind = "undefined"
            THEN guessByContentFrom(self, i + 1)
            ELSE getStartPath(fileType.scope)

guessByContent(self) == guessByContentFrom(self, 1)

\* ------------------------------------------------------------------------
\* State.
\* ------------------------------------------------------------------------
VARIABLES
    fileTypes,        \* the built-in sequence (this.fileTypes)
    pluginFileTypes,  \* the plugin collection (a Set, in insertion order)
    projectConfig,    \* the project context, or undefined
    setupDone,        \* setup has installed the built-in sequence
    disposers,        \* the definitions whose disposer a caller holds
    guess,            \* the frame of the guessFolder call in flight
    last              \* the last call or event and its outcome

vars == <<fileTypes, pluginFileTypes, projectConfig, setupDone, disposers,
          guess, last>>

this == [fileTypes |-> fileTypes, pluginFileTypes |-> pluginFileTypes,
         projectConfig |-> projectConfig]

\* Set.prototype.add / delete on a Set kept in insertion order.
SetAdd(set, x) == IF includes(set, x) THEN set ELSE Append(set, x)
SetDelete(set, x) == SelectSeq(set, LAMBDA y : y # x)
RECURSIVE SetAddAll(_, _, _)
SetAddAll(set, list, k) ==
    IF k > Len(list) THEN set ELSE SetAddAll(SetAdd(set, list[k]), list, k + 1)

\* The lists handed to setPluginFileTypes (the empty one is its default):
\* every list over the pool as long as the pool, repeated members included;
\* a longer list only repeats members again.
PluginLists == UNION {[1..n -> PluginPool] : n \in 0..Cardinality(PluginPool)}

Idle == [pc |-> "idle", name |-> <<>>, reads |-> 0]

Init ==
    /\ fileTypes = <<>>
    /\ pluginFileTypes = <<>>
    /\ projectConfig \in {NoProjectConfig, TheProjectConfig}
    /\ setupDone = FALSE
    /\ disposers = {}
    /\ guess = Idle
    /\ last = [op |-> "new", arg |-> <<>>, out |-> Returned(<<>>)]

\* setup(arg) of a subclass: installs the built-in sequence, once.
setup ==
    /\ ~setupDone
    /\ \E seq \in BuiltInSequences : fileTypes' = seq
    /\ setupDone' = TRUE
    /\ last' = [op |-> "setup", arg |-> <<>>, out |-> Returned(<<>>)]
    /\ UNCHANGED <<pluginFileTypes, projectConfig, disposers, guess>>

setProjectConfig ==
    /\ projectConfig' = TheProjectConfig
    /\ last' = [op |-> "setProjectConfig", arg |-> <<>>, out |-> Returned(<<>>)]
    /\ UNCHANGED <<fileTypes, pluginFileTypes, setupDone, disposers, guess>>

addPluginFileType(fileDef) ==
    /\ pluginFileTypes' = SetAdd(pluginFileTypes, fileDef)
    /\ disposers' = disposers \cup {fileDef}
    /\ last' = [op |-> "addPluginFileType", arg |-> fileDef, out |-> Returned(fileDef)]
    /\ UNCHANGED <<fileTypes, projectConfig, setupDone, guess>>

\* A disposer that empties the plugin collection.
disposeClears(fileDef) ==
    /\ fileDef \in disposers
    /\ pluginFileTypes' = <<>>
    /\ last' = [op |-> "dispose", arg |-> fileDef,
                out |-> Returned(includes(pluginFileTypes, fileDef))]
    /\ UNCHANGED <<fileTypes, projectConfig, setupDone, disposers, guess>>

\* The disposer returned by addPluginFileType(fileDef).
dispose(fileDef) ==
    /\ fileDef \in disposers
    /\ pluginFileTypes' = SetDelete(pluginFileTypes, fileDef)
    /\ last' = [op |-> "dispose", arg |-> fileDef,
                out |-> Returned(includes(pluginFileTypes, fileDef))]
    /\ UNCHANGED <<fileTypes, projectConfig, setupDone, disposers, guess>>

setPluginFileTypes(fileDefs) ==
    /\ pluginFileTypes' = SetAddAll(<<>>, fileDefs, 1)
    /\ last' = [op |-> "setPluginFileTypes", arg |-> fileDefs, out |-> Returned(<<>>)]
    /\ UNCHANGED <<fileTypes, projectConfig, setupDone, disposers, guess>>

\* The synchronous queries.
QueryOps == {"getPluginFileTypes", "get", "getIds", "getId", "isJsonFile"}

\* A call of a synchronous query: the object is left alone, only `last`
\* records the call. A query therefore reaches the same state whether or not
\* other queries ran just before it, or a guessFolder call is waiting on its
\* file: queries are taken while no guessFolder call is in flight, from a
\* state that a mutation or an event (not another query) has left.
Query(op, arg, out) ==
    /\ guess.pc = "idle"
    /\ last.op \notin QueryOps
    /\ last' = [op |-> op, arg |-> arg, out |-> out]
    /\ UNCHANGED <<fileTypes, pluginFileTypes, projectConfig, setupDone,
                   disposers, guess>>

GetPluginFileTypes == Query("getPluginFileTypes", <<>>, Returned(getPluginFileTypes(this)))

Get(filePath, searchFileType) ==
    Query("get", <<filePath, searchFileType>>, get(this, filePath, searchFileType))

GetIds == Query("getIds", <<>>, Returned(getIds(this)))

GetId(filePath) == Query("getId", filePath, getId(this, filePath))

IsJsonFile(filePath) == Query("isJsonFile", filePath, isJsonFile(this, filePath))

\* The end of a guessFolder call.
GuessDone(name, out, reads, phase, failure) ==
    /\ guess' = Idle
    /\ last' = [op |-> "guessFolder", arg |-> name, out |-> out,
                reads |-> reads, phase |-> phase, failure |-> failure]

\* guessFolder(fileHandle) up to its first await: phase 1 (which returns a
\* start path, or rejects the call when getStartPath raises), the test of
\* the '.json' suffix and the call of fileHandle.getFile().
guessFolder(name) ==
    /\ guess.pc = "idle"
    /\ LET byExtension == guessByExtension(this, name)
       IN IF byExtension.status = "throw"
          THEN GuessDone(name, byExtension, 0, 1, "getStartPath")
          ELSE IF byExtension # Returned(Null)
          THEN GuessDone(name, byExtension, 0, 1, "none")
          ELSE IF ~endsWith(name, DotJson) THEN GuessDone(name, Returned(Null), 0, 1, "none")
          ELSE /\ guess' = [pc |-> "getFile", name |-> name, reads |-> 1]
               /\ last' = [op |-> "getFile", arg |-> name, out |-> Returned(<<>>)]
    /\ UNCHANGED <<fileTypes, pluginFileTypes, projectConfig, setupDone, disposers>>

\* `await fileHandle.getFile()` settles: a rejection is outside the try
\* block and rejects guessFolder; a File leads to the call of file.text().
getFileSettled ==
    /\ guess.pc = "getFile"
    /\ \/ GuessDone(guess.name, Thrown("getFile"), guess.reads, 2, "getFile")
       \/ /\ guess' = [guess EXCEPT !.pc = "text"]
          /\ last' = [op |-> "text", arg |-> guess.name, out |-> Returned(<<>>)]
    /\ UNCHANGED <<fileTypes, pluginFileTypes, projectConfig, setupDone, disposers>>

\* `parse(await file.text())` inside the try block, then phase 2, which is
\* outside of it: a TypeError of getStartPath rejects guessFolder.
textSettled ==
    /\ guess.pc = "text"
    /\ \/ GuessDone(guess.name, Returned(Null), guess.reads, 2, "text")
       \/ \E text \in Texts :
             IF parse(text) = "SyntaxError"
             THEN GuessDone(guess.name, Returned(Null), guess.reads, 2, "parse")
             ELSE GuessDone(guess.name, guessByContent(this), guess.reads, 2,
                            IF guessByContent(this).status = "throw"
                            THEN "getStartPath" ELSE "none")
    /\ UNCHANGED <<fileTypes, pluginFileTypes, projectConfig, setupDone, disposers>>

Next ==
    \/ setup
    \/ setProjectConfig
    \/ \E fileDef \in PluginPool : addPluginFileType(fileDef)
    \/ \E fileDef \in PluginPool : dispose(fileDef)
    \/ \E fileDefs \in PluginLists : setPluginFileTypes(fileDefs)
    \/ GetPluginFileTypes
    \/ \E input \in GetInputs : Get(input[1], input[2])
    \/ GetIds
    \/ \E filePath \in FilePaths : GetId(filePath)
    \/ \E filePath \in JsonFilePaths : IsJsonFile(filePath)
    \/ \E name \in FileNames : guessFolder(name)
    \/ getFileSettled
    \/ textSettled

Spec == Init /\ [][Next]_vars

\* ------------------------------------------------------------------------
\* Properties.
\* ------------------------------------------------------------------------
\* The definition at index k passes its extension test and its scope-prefix
\* or matcher-glob test for the path (no identifier requested).
StructurallyMatches(self, filePath, k) ==
    getStep(self, filePath, Undefined, k) = "return"

\* The definition at index k has neither a scope nor a matcher.
LacksDetect(self, k) ==
    /\ ~Truthy(Deref(self.fileTypes[k]).scope)
    /\ ~Truthy(Deref(self.fileTypes[k]).matcher)

GetByPath == last.op = "get" /\ last.arg[2] = Undefined

\* C1 (priority law): when get(path) returns a definition, it is the
\* earliest definition of the built-in sequence that structurally matches
\* the path: the returned one matches and none before it does; and when
\* get(path) returns and some definition matches, it returns a definition.
C1_PriorityLaw ==
    (GetByPath /\ last.out.status = "return") =>
        LET i == last.out.value
            matching == {k \in 1..Len(fileTypes) :
                            StructurallyMatches(this, last.arg[1], k)}
        IN /\ i > 0 => i \in matching
           /\ \A j \in matching : i > 0 /\ i <= j

\* get(path) returned the first definition although the second one matches
\* the path as well.
C1_Witness ==
    /\ GetByPath
    /\ last.out = Returned(1)
    /\ Len(fileTypes) >= 2
    /\ StructurallyMatches(this, last.arg[1], 2)

\* C2 (identity override): get(path, id) with an id carried by a definition
\* of the built-in sequence returns a definition with that id, whatever
\* matches the path.
C2_IdentityOverride ==
    (/\ last.op = "get"
     /\ last.arg[2].kind = "string"
     /\ \E k \in 1..Len(fileTypes) : Deref(fileTypes[k]).id = last.arg[2].val)
    => /\ last.out.status = "return"
       /\ last.out.value > 0
       /\ Deref(fileTypes[last.out.value]).id = last.arg[2].val

\* C3 (extension filter): get(path) never returns a definition that
\* declares a non-empty fileExtensions list which does not hold the
\* extension of the path, the empty extension included.
C3_ExtensionFilter ==
    (/\ GetByPath
     /\ last.arg[1].kind = "string"
     /\ last.out.status = "return"
     /\ last.out.value > 0)
    => LET fileExtensions == Deref(fileTypes[last.out.value]).fileExtensions
       IN (fileExtensions.kind = "array" /\ Len(fileExtensions.val) > 0)
            => includes(fileExtensions.val, extname(last.arg[1].val))

\* The scan of a call get(filePath, searchFileType) reaches index k: no
\* earlier definition made the call return or abort.
Reaches(self, filePath, searchFileType, k) ==
    \A j \in 1..(k - 1) : getStep(self, filePath, searchFileType, j) = "continue"

\* C4 as stated (fatal-config law, every call): a call of get whose scan
\* reaches a definition with neither scope nor matcher aborts with an error
\* at that definition.
C4_FatalConfigEveryCall ==
    last.op = "get" =>
        \A k \in 1..Len(fileTypes) :
            (LacksDetect(this, k) /\ Reaches(this, last.arg[1], last.arg[2], k))
                => last.out = Thrown(k)

\* The first definition that carries the identifier, 0 when none does.
FirstWithId(self, searchFileType) ==
    LET carrying == {k \in 1..Len(self.fileTypes) :
                        /\ searchFileType.kind = "string"
                        /\ Deref(self.fileTypes[k]).id = searchFileType.val}
    IN IF carrying = {} THEN 0
       ELSE CHOOSE k \in carrying : \A j \in carrying : k <= j

\* C4 as amended: a call of get with a non-empty path whose scan reaches a
\* definition with neither scope nor matcher aborts with an error at that
\* definition, unless the definition carries the requested id or is passed
\* over by the extension test (it declares fileExtensions, the extension of
\* the path is not empty and the list does not hold it); and a call with no
\* path, or an empty one, never aborts: it returns the first definition
\* that carries the requested id, and no match when there is none.
C4_FatalConfig ==
    last.op = "get" =>
        /\ Truthy(last.arg[1]) =>
            \A k \in 1..Len(fileTypes) :
                LET fileType == Deref(fileTypes[k])
                    extension == extname(last.arg[1].val)
                    requested == /\ last.arg[2].kind = "string"
                                 /\ last.arg[2].val = fileType.id
                    passedOver == /\ fileType.fileExtensions.kind = "array"
                                  /\ extension # <<>>
                                  /\ ~includes(fileType.fileExtensions.val, extension)
                IN (/\ LacksDetect(this, k)
                    /\ Reaches(this, last.arg[1], last.arg[2], k)
                    /\ ~requested
                    /\ ~passedOver)
                    => last.out = Thrown(k)
        /\ ~Truthy(last.arg[1]) =>
            last.out = Returned(FirstWithId(this, last.arg[2]))

\* get aborted at the second definition of the sequence.
C4_Witness ==
    /\ last.op = "get"
    /\ last.out = Thrown(2)
    /\ LacksDetect(this, 2)

\* C5 (disposal law): a call of the disposer of d leaves the plugin
\* collection without d and with every other member in place and in order,
\* leaves the built-in sequence alone, and changes nothing when it comes
\* right after a call of the same disposer.
C5_DisposalStep ==
    last'.op = "dispose" =>
        LET d == last'.arg
        IN /\ ~includes(pluginFileTypes', d)
           /\ pluginFileTypes' = SelectSeq(pluginFileTypes, LAMBDA x : x # d)
           /\ fileTypes' = fileTypes
           /\ (last.op = "dispose" /\ last.arg = d)
                => pluginFileTypes' = pluginFileTypes
C5_DisposalLaw == [][C5_DisposalStep]_vars

\* The disposer removed its definition and another member stayed.
C5_Witness ==
    /\ last.op = "dispose"
    /\ last.out = Returned(TRUE)
    /\ Len(pluginFileTypes) = 1
    /\ ~includes(pluginFileTypes, last.arg)

\* C6 as stated: getId(path) returns the id of the definition get(path)
\* resolves to, 'unknown' when there is none, and never raises for a path
\* that no definition structurally matches.
C6_GetIdNeverRaises ==
    last.op = "getId" =>
        LET matching == {k \in 1..Len(fileTypes) :
                            StructurallyMatches(this, Str(last.arg), k)}
        IN matching = {} => last.out = Returned(UNKNOWN)

\* The definition at index k passes the extension test of get for the path.
PassesExtension(self, filePath, k) ==
    LET fileExtensions == Deref(self.fileTypes[k]).fileExtensions
    IN \/ fileExtensions.kind = "undefined"
       \/ extname(filePath) = <<>>
       \/ includes(fileExtensions.val, extname(filePath))

\* The definition at index k has no scope and a matcher of which a pattern,
\* once expanded, is the empty string.
HasEmptyPattern(self, k) ==
    LET fileType == Deref(self.fileTypes[k])
        packTypes == IF fileType.packType.kind = "undefined" THEN <<>>
                     ELSE AsArray(fileType.packType)
        patterns == prefixMatchers(self, packTypes, AsArray(fileType.matcher))
    IN /\ ~Truthy(fileType.scope)
       /\ Truthy(fileType.matcher)
       /\ \E i \in 1..Len(patterns) : patterns[i] = <<>>

\* C6 as amended: getId(path) stops at the earliest definition that
\* structurally matches the path, that has neither scope nor matcher and
\* passes the extension test, or whose matcher holds an empty pattern and
\* passes the extension test. It returns the id of the first kind, raises
\* the error of get at the second, raises the TypeError of isMatch at the
\* third, and returns 'unknown' when there is none (or the path is empty).
C6_GetId ==
    last.op = "getId" =>
        LET filePath == last.arg
            indices == IF filePath = <<>> THEN {} ELSE 1..Len(fileTypes)
            matching == {k \in indices : StructurallyMatches(this, Str(filePath), k)}
            invalid == {k \in indices : /\ LacksDetect(this, k)
                                        /\ PassesExtension(this, filePath, k)}
            refused == {k \in indices : /\ HasEmptyPattern(this, k)
                                        /\ PassesExtension(this, filePath, k)}
            stopping == matching \cup invalid \cup refused
        IN IF stopping = {} THEN last.out = Returned(UNKNOWN)
           ELSE LET k == CHOOSE k \in stopping : \A j \in stopping : k <= j
                IN /\ k \in matching => last.out = Returned(Deref(fileTypes[k]).id)
                   /\ k \in invalid => last.out = Thrown(k)
                   /\ k \in refused => last.out = TypeErrorAt(k)

\* getId returned 'unknown' for a non-empty path in a sequence that holds a
\* definition with neither scope nor matcher (passed over by its extension
\* test).
C6_Witness ==
    /\ last.op = "getId"
    /\ last.out = Returned(UNKNOWN)
    /\ last.arg # <<>>
    /\ \E k \in 1..Len(fileTypes) : LacksDetect(this, k)

\* C7 (no failure of the asynchronous phase is propagated): a guessFolder
\* call whose getFile, text decoding or parsing failed ends with null.
C7_NoFailurePropagated ==
    (last.op = "guessFolder" /\ last.failure \in {"getFile", "text", "parse"})
        => last.out = Returned(Null)

\* C8 as stated: without a project context, get(path) returns no match and
\* does not raise, whatever the built-in sequence.
C8_NoContextNoMatch ==
    (GetByPath /\ projectConfig.kind = "undefined")
        => last.out = Returned(0)

\* C8 as amended: without a project context, get(path) never returns a
\* definition: it returns no match, or it aborts when its scan meets a
\* definition with neither scope nor matcher.
C8_NoContext ==
    (GetByPath /\ projectConfig.kind = "undefined") =>
        /\ last.out.status = "return" => last.out.value = 0
        /\ last.out.status = "throw" => LacksDetect(this, last.out.value)
        /\ (\A k \in 1..Len(fileTypes) : ~LacksDetect(this, k))
              => last.out = Returned(0)

\* Without a project context, get(path) found nothing in a sequence with a
\* definition whose scope is a prefix of the path once expanded.
C8_Witness ==
    /\ GetByPath
    /\ projectConfig.kind = "undefined"
    /\ last.out = Returned(0)
    /\ Truthy(last.arg[1])
    /\ \E k \in 1..Len(fileTypes) :
          getStep([this EXCEPT !.projectConfig = TheProjectConfig],
                  last.arg[1], Undefined, k) = "return"

\* The definitions phase 1 of guessFolder may answer with: those that
\* declare a scope and list the extension of the name.
ExtensionCandidates(name) ==
    {k \in 1..Len(fileTypes) :
        LET detect == Deref(fileTypes[k])
        IN /\ Truthy(detect.scope)
           /\ detect.fileExtensions.kind = "array"
           /\ includes(detect.fileExtensions.val,
                       <<".">> \o SubSeq(name, LastIndexOf(name, ".", 1, Len(name)) + 1,
                                         Len(name)))}

FirstScope(k) ==
    LET scope == Deref(fileTypes[k]).scope
    IN IF scope.kind = "array" THEN scope.val[1] ELSE scope.val

\* The content reader of guessFolder: getFile is called at most once per
\* call, only when no definition has a scope and the extension of the name,
\* and only for a name that ends in '.json'.
ContentReaderOrder ==
    /\ guess.reads <= 1
    /\ (guess.pc # "idle") => guess.reads = 1
    /\ last.op = "getFile" =>
          /\ ExtensionCandidates(last.arg) = {}
          /\ endsWith(last.arg, DotJson)
          /\ guess.reads = 1
    /\ last.op = "guessFolder" =>
          /\ last.reads <= 1
          /\ last.reads = 1 <=> last.phase = 2
          /\ last.phase = 2 => endsWith(last.arg, DotJson)
          /\ (last.phase = 1 /\ ExtensionCandidates(last.arg) = {})
                => (last.out = Returned(Null) /\ ~endsWith(last.arg, DotJson))

\* The call ended with the first scope entry of the definition at index k,
\* ending with "/".
EndedWithScopeOf(k) ==
    /\ last.out.status = "return"
    /\ last.out.value.kind = "string"
    /\ last.out.value.val \in {FirstScope(k), FirstScope(k) \o <<"/">>}
    /\ last.out.value.val[Len(last.out.value.val)] = "/"

\* C9 (phase ordering of guessFolder): a call that finds a definition with
\* a scope and the extension of the name ends at once with the first scope
\* entry of the earliest such definition, ending with "/", and getFile is
\* not called; getFile is called only when there is no such definition and
\* the name ends in '.json', and at most once per call.
C9_PhaseOrder ==
    /\ ContentReaderOrder
    /\ (last.op = "guessFolder" /\ last.phase = 1) =>
          LET candidates == ExtensionCandidates(last.arg)
          IN candidates # {} =>
                \E k \in candidates :
                    /\ \A j \in candidates : k <= j
                    /\ last.reads = 0
                    /\ EndedWithScopeOf(k)

\* guessFolder answered in phase 1 with the scope of the first definition,
\* a "/" added, although the second definition is a candidate too.
C9_Witness ==
    /\ last.op = "guessFolder"
    /\ last.phase = 1
    /\ last.reads = 0
    /\ ExtensionCandidates(last.arg) = {1, 2}
    /\ last.out = Returned(Str(FirstScope(1) \o <<"/">>))

\* The plugin collections an object may hold.
PluginCollections ==
    {seq \in UNION {[1..n -> PluginPool] : n \in 0..Cardinality(PluginPool)} :
        \A j, k \in 1..Len(seq) : seq[j] = seq[k] => j = k}

\* The outcome in `last` is the one the same call has on the object `other`.
SameOutcomeOn(other) ==
    /\ last.op = "get" => last.out = get(other, last.arg[1], last.arg[2])
    /\ last.op = "getId" => last.out = getId(other, last.arg)
    /\ last.op = "isJsonFile" => last.out = isJsonFile(other, last.arg)
    /\ last.op = "getIds" => last.out = Returned(getIds(other))
    /\ last.op = "getFile" => guessByExtension(other, last.arg) = Returned(Null)
    /\ (last.op = "guessFolder" /\ last.phase = 1)
          => last.out = guessByExtension(other, last.arg)
    /\ (/\ last.op = "guessFolder"
        /\ last.phase = 2
        /\ last.failure \in {"none", "getStartPath"})
          => last.out = guessByContent(other)

\* C10 (plugin non-interference): the outcome of get, getId, isJsonFile,
\* getIds and guessFolder is the one the call has on an object with the same
\* built-in sequence and project context and any other plugin collection;
\* and addPluginFileType, a disposer and setPluginFileTypes leave the
\* built-in sequence alone.
C10_PluginStep ==
    last'.op \in {"addPluginFileType", "dispose", "setPluginFileTypes"}
        => fileTypes' = fileTypes
C10_NonInterference ==
    /\ [](\A plugins \in PluginCollections :
            SameOutcomeOn([this EXCEPT !.pluginFileTypes = plugins]))
    /\ [][C10_PluginStep]_vars

\* get returned a definition while the plugin collection holds a definition
\* that matches the path as well.
C10_Witness ==
    /\ GetByPath
    /\ last.out.status = "return"
    /\ last.out.value > 0
    /\ \E k \in 1..Len(pluginFileTypes) :
          detectStep(this, Deref(pluginFileTypes[k]), last.arg[1].val) = "return"

=============================================================================
